---- MODULE Spec2Model ----
(***************************************************************************)
(* pangram-finder (src/src/main.rs): rank the letters of a word list by    *)
(* rarity, encode every word as a u32 letter mask, index the words by      *)
(* letter, and search depth-first for groups of words covering the         *)
(* alphabet.                                                               *)
(*                                                                         *)
(* A letter is its position in the alphabet (A = 1 .. Z = 26); a           *)
(* SanitizedString is its text, Chars giving its letters.  A u32 mask is the set of its *)
(* set bits, each bit named by its distance from the most significant bit  *)
(* (0 = bit 31, 31 = bit 0), so that leading_ones / leading_zeros / | and  *)
(* the numeric order of two masks are exactly those of the 32-bit value.   *)
(***************************************************************************)
EXTENDS Integers, Sequences, FiniteSets, TLC

VARIABLES
    sanitized_strings,        \* main: the sorted, deduplicated word list
    max_solution_size,        \* the setting of MAX_SOLUTION_SIZE of this build
    hash_order,               \* iteration order of the HashMap's keys in this run
    letters_sorted_by_rarity, \* main: Vec<char>, rarest letter first
    search_structure,         \* SearchStructure.search_structure: Vec<WordsWithLetter>
    stack,                    \* the active calls of find_pangrams, innermost last
    pangrams,                 \* the Vec<Solution> threaded through find_pangrams
    no_dupes,                 \* main: all_pangrams.into_iter().unique()
    reported,                 \* main: the printed length of no_dupes (-1: nothing printed)
    pc,                       \* position of main
    run,                      \* 1: first execution, 2: second execution on the same list
    first_solutions,          \* what the first execution found, by word names
    first_reported            \* what the first execution printed

vars == <<sanitized_strings, max_solution_size, hash_order, letters_sorted_by_rarity,
          search_structure, stack, pangrams, no_dupes, reported, pc, run,
          first_solutions, first_reported>>

----------------------------------------------------------------------------
(* Program constants *)

MAX_SOLUTION_SIZE == 4

ALPHABET == 26

U32_BITS == 32

(* Model bound: the largest number of distinct words in the word list *)
MaxCorpus == 4

----------------------------------------------------------------------------
(* Word lists *)

Range(s) == {s[i] : i \in 1..Len(s)}

Min(S) == CHOOSE x \in S : \A y \in S : x <= y

Letters(lo, hi) == [i \in 1..(hi - lo + 1) |-> lo + i - 1]

(* The words of the model's lists, each named by its text *)
AB     == "AB"
BA     == "BA"
B_     == "B"
CD     == "CD"
EF     == "EF"
CDEF   == "CDEF"
ABCDEF == "ABCDEF"
GZ     == "GHIJKLMNOPQRSTUVWXYZ"
CZ     == "CDEFGHIJKLMNOPQRSTUVWXYZ"
ACZ    == "ACDEFGHIJKLMNOPQRSTUVWXYZ"
ABGZ   == "ABGHIJKLMNOPQRSTUVWXYZ"
AZ     == "ABCDEFGHIJKLMNOPQRSTUVWXYZ"

(* chars() of each word *)
Chars ==
    (AB :> <<1, 2>>) @@ (BA :> <<2, 1>>) @@ (B_ :> <<2>>) @@ (CD :> <<3, 4>>) @@
    (EF :> <<5, 6>>) @@ (CDEF :> Letters(3, 6)) @@ (ABCDEF :> Letters(1, 6)) @@
    (GZ :> Letters(7, 26)) @@ (CZ :> Letters(3, 26)) @@
    (ACZ :> <<1>> \o Letters(3, 26)) @@ (ABGZ :> <<1, 2>> \o Letters(7, 26)) @@
    (AZ :> Letters(1, 26))

Palette == DOMAIN Chars

(* Orders in which the HashMap of line 156 may hand out its keys *)
HashOrders == {"ascending", "descending"}

----------------------------------------------------------------------------
(* main, lines 148-154: sort_by on the strings and dedup *)

RECURSIVE CharsLess(_, _)
CharsLess(s, t) ==
    IF t = <<>> THEN FALSE
    ELSE IF s = <<>> THEN TRUE
    ELSE IF Head(s) # Head(t) THEN Head(s) < Head(t)
    ELSE CharsLess(Tail(s), Tail(t))

StrLess(s, t) == CharsLess(Chars[s], Chars[t])

RECURSIVE SortStrings(_)
SortStrings(S) ==
    IF S = {} THEN <<>>
    ELSE LET m == CHOOSE x \in S : \A y \in S \ {x} : StrLess(x, y)
         IN  <<m>> \o SortStrings(S \ {m})

----------------------------------------------------------------------------
(* u32 operations *)

leading_ones(m) == Min({i \in 0..U32_BITS : i \notin m})

leading_zeros(m) == Min({i \in 0..U32_BITS : i \in m \/ i = U32_BITS})

(* a.cmp(b) == Less on two u32 values *)
MaskLess(a, b) ==
    /\ a # b
    /\ Min((a \ b) \cup (b \ a)) \in b

----------------------------------------------------------------------------
(* main, lines 156-169: the letters by rarity *)

get_unique_letters(s) == Range(Chars[s])

occurences_of_each_letter(strings) ==
    [l \in UNION {get_unique_letters(strings[i]) : i \in 1..Len(strings)} |->
        Cardinality({i \in 1..Len(strings) : l \in get_unique_letters(strings[i])})]

RECURSIVE Ascending(_)
Ascending(S) ==
    IF S = {} THEN <<>> ELSE <<Min(S)>> \o Ascending(S \ {Min(S)})

Reverse(s) == [i \in 1..Len(s) |-> s[Len(s) + 1 - i]]

keys(occ, order) ==
    IF order = "ascending" THEN Ascending(DOMAIN occ)
    ELSE Reverse(Ascending(DOMAIN occ))

(* Vec::sort_by is stable: an element goes after the elements not greater *)
RECURSIVE InsertByCount(_, _, _)
InsertByCount(sorted, x, occ) ==
    IF sorted = <<>> THEN <<x>>
    ELSE IF occ[x] < occ[Head(sorted)] THEN <<x>> \o sorted
    ELSE <<Head(sorted)>> \o InsertByCount(Tail(sorted), x, occ)

RECURSIVE SortByCount(_, _, _)
SortByCount(done, rest, occ) ==
    IF rest = <<>> THEN done
    ELSE SortByCount(InsertByCount(done, Head(rest), occ), Tail(rest), occ)

sort_by_rarity(occ, order) == SortByCount(<<>>, keys(occ, order), occ)

----------------------------------------------------------------------------
(* Word *)

parse_string(s, order_of_letters) ==
    [name |-> s,
     letters_present |->
        {k - 1 : k \in {j \in 1..Len(order_of_letters) : order_of_letters[j] \in Range(Chars[s])}}]

word_list(strings, order_of_letters) ==
    [i \in 1..Len(strings) |-> parse_string(strings[i], order_of_letters)]

----------------------------------------------------------------------------
(* SearchStructure::build: bucket r+1 of the model is output[r] of the code *)

(* Variant: the inner loop runs once, so a word reaches only the bucket of its
   leading letter *)
build_leading_only(number_of_letters, words) ==
    [r \in 1..number_of_letters |->
        [words |-> SelectSeq(words, LAMBDA w : (r - 1) = leading_zeros(w.letters_present))]]

build(number_of_letters, words) ==
    [r \in 1..number_of_letters |->
        [words |-> SelectSeq(words, LAMBDA w : (r - 1) \in w.letters_present)]]

----------------------------------------------------------------------------
(* Pangram *)

Pangram_new == [selected_words |-> <<>>, selected_letters |-> {}]

next_missing_letter(self) == leading_ones(self.selected_letters)

RECURSIVE InsertByMask(_, _)
InsertByMask(sorted, w) ==
    IF sorted = <<>> THEN <<w>>
    ELSE IF MaskLess(w.letters_present, Head(sorted).letters_present) THEN <<w>> \o sorted
    ELSE <<Head(sorted)>> \o InsertByMask(Tail(sorted), w)

RECURSIVE SortByMask(_, _)
SortByMask(done, rest) ==
    IF rest = <<>> THEN done
    ELSE SortByMask(InsertByMask(done, Head(rest)), Tail(rest))

(* Variant: the Solution keeps the order in which its words were picked *)
sort_by_letters_present_skipped(words) == words

sort_by_letters_present(words) == SortByMask(<<>>, words)

(* Variant: one rank short of the alphabet *)
is_complete_one_short(new_selected_letters) ==
    leading_ones(new_selected_letters) >= ALPHABET - 1

is_complete(new_selected_letters) == leading_ones(new_selected_letters) >= ALPHABET

(* Variant: > for >= *)
is_failed_off_by_one(self) == Len(self.selected_words) + 1 > max_solution_size

is_failed(self) == Len(self.selected_words) + 1 >= max_solution_size

(* Variant: the new word's letters replace the selected letters instead of joining
   them *)
check_with_overwriting(self, new_word) ==
    LET new_selected_letters == new_word.letters_present
        new_selected_words == <<new_word>> \o self.selected_words
    IN  IF is_complete(new_selected_letters)
        THEN [state |-> "CompletePangram",
              solution |-> [words |-> sort_by_letters_present(new_selected_words)]]
        ELSE IF is_failed(self)
        THEN [state |-> "FailedPangram"]
        ELSE [state |-> "PotentialPangram",
              pangram |-> [selected_words |-> new_selected_words,
                           selected_letters |-> new_selected_letters]]

check_with(self, new_word) ==
    LET new_selected_letters == self.selected_letters \cup new_word.letters_present
        new_selected_words == <<new_word>> \o self.selected_words
    IN  IF is_complete(new_selected_letters)
        THEN [state |-> "CompletePangram",
              solution |-> [words |-> sort_by_letters_present(new_selected_words)]]
        ELSE IF is_failed(self)
        THEN [state |-> "FailedPangram"]
        ELSE [state |-> "PotentialPangram",
              pangram |-> [selected_words |-> new_selected_words,
                           selected_letters |-> new_selected_letters]]

----------------------------------------------------------------------------
(* itertools' unique(): the first occurrence of every element, in order *)

RECURSIVE UniqueFrom(_, _)
UniqueFrom(kept, rest) ==
    IF rest = <<>> THEN kept
    ELSE IF Head(rest) \in Range(kept) THEN UniqueFrom(kept, Tail(rest))
    ELSE UniqueFrom(Append(kept, Head(rest)), Tail(rest))

unique(seq) == UniqueFrom(<<>>, seq)

----------------------------------------------------------------------------
(* A Solution as the set of its words' names *)

Names(solution) == {solution.words[i].name : i \in 1..Len(solution.words)}

SolutionSets(solutions) == {Names(solutions[i]) : i \in 1..Len(solutions)}

----------------------------------------------------------------------------
(* The state after lines 148-154 of main: a sorted list of at most MaxCorpus
   distinct words.  max_solution_size is the value MAX_SOLUTION_SIZE is compiled
   with: 4 in the source, and the smaller positive values as well. *)

Init ==
    /\ \E lines \in SUBSET Palette :
          /\ Cardinality(lines) <= MaxCorpus
          /\ sanitized_strings = SortStrings(lines)
    /\ max_solution_size \in 1..MAX_SOLUTION_SIZE
    /\ hash_order \in HashOrders
    /\ letters_sorted_by_rarity = <<>>
    /\ search_structure = <<>>
    /\ stack = <<>>
    /\ pangrams = <<>>
    /\ no_dupes = <<>>
    /\ reported = -1
    /\ pc = "start"
    /\ run = 1
    /\ first_solutions = {}
    /\ first_reported = -1

(* main, lines 156-177 *)
Main_build ==
    /\ pc = "start"
    /\ LET occ   == occurences_of_each_letter(sanitized_strings)
           order == sort_by_rarity(occ, hash_order)
       IN  /\ letters_sorted_by_rarity' = order
           /\ search_structure' = build(Len(order), word_list(sanitized_strings, order))
    /\ pc' = "built"
    /\ UNCHANGED <<sanitized_strings, max_solution_size, hash_order, stack, pangrams,
                   no_dupes, reported, run, first_solutions, first_reported>>

(* Entering find_pangrams: the bucket is indexed before the loop starts; an index
   past the end of search_structure aborts the process. *)
Enter(callers, current_pangram) ==
    IF next_missing_letter(current_pangram) < Len(search_structure)
    THEN /\ stack' = Append(callers, [current_pangram |-> current_pangram,
                                      bucket |-> next_missing_letter(current_pangram) + 1,
                                      next |-> 1])
         /\ pc' = "search"
    ELSE /\ stack' = callers
         /\ pc' = "panic"

(* main, line 181 *)
Main_find_pangrams ==
    /\ pc = "built"
    /\ Enter(<<>>, Pangram_new)
    /\ UNCHANGED <<sanitized_strings, max_solution_size, hash_order,
                   letters_sorted_by_rarity, search_structure, pangrams, no_dupes,
                   reported, run, first_solutions, first_reported>>

(* The innermost call of find_pangrams and the word its loop is at *)
Top == stack[Len(stack)]

Bucket == search_structure[Top.bucket].words

InLoop ==
    /\ pc = "search"
    /\ stack # <<>>
    /\ Top.next <= Len(Bucket)

Checked == check_with(Top.current_pangram, Bucket[Top.next])

Advanced == [stack EXCEPT ![Len(stack)].next = @ + 1]

(* lines 86-89 *)
Loop_complete ==
    /\ InLoop
    /\ Checked.state = "CompletePangram"
    /\ pangrams' = Append(pangrams, Checked.solution)
    /\ stack' = Advanced
    /\ UNCHANGED <<sanitized_strings, max_solution_size, hash_order,
                   letters_sorted_by_rarity, search_structure, no_dupes, reported, pc,
                   run, first_solutions, first_reported>>

(* line 90 *)
Loop_failed ==
    /\ InLoop
    /\ Checked.state = "FailedPangram"
    /\ stack' = Advanced
    /\ UNCHANGED <<sanitized_strings, max_solution_size, hash_order,
                   letters_sorted_by_rarity, search_structure, pangrams, no_dupes,
                   reported, pc, run, first_solutions, first_reported>>

(* lines 91-93 *)
Loop_potential ==
    /\ InLoop
    /\ Checked.state = "PotentialPangram"
    /\ Enter(Advanced, Checked.pangram)
    /\ UNCHANGED <<sanitized_strings, max_solution_size, hash_order,
                   letters_sorted_by_rarity, search_structure, pangrams, no_dupes,
                   reported, run, first_solutions, first_reported>>

(* line 96 *)
Return ==
    /\ pc = "search"
    /\ stack # <<>>
    /\ Top.next > Len(Bucket)
    /\ stack' = SubSeq(stack, 1, Len(stack) - 1)
    /\ pc' = IF Len(stack) = 1 THEN "returned" ELSE "search"
    /\ UNCHANGED <<sanitized_strings, max_solution_size, hash_order,
                   letters_sorted_by_rarity, search_structure, pangrams, no_dupes,
                   reported, run, first_solutions, first_reported>>

(* main, lines 182-184 *)
Main_unique ==
    /\ pc = "returned"
    /\ no_dupes' = unique(pangrams)
    /\ reported' = Len(unique(pangrams))
    /\ pc' = "done"
    /\ UNCHANGED <<sanitized_strings, max_solution_size, hash_order,
                   letters_sorted_by_rarity, search_structure, stack, pangrams, run,
                   first_solutions, first_reported>>

(* The program is executed once more on the same word list; the HashMap of this
   execution hands out its keys in another order. *)
Main_again ==
    /\ pc = "done"
    /\ run = 1
    /\ run' = 2
    /\ first_solutions' = SolutionSets(no_dupes)
    /\ first_reported' = reported
    /\ hash_order' \in HashOrders \ {hash_order}
    /\ letters_sorted_by_rarity' = <<>>
    /\ search_structure' = <<>>
    /\ pangrams' = <<>>
    /\ no_dupes' = <<>>
    /\ reported' = -1
    /\ pc' = "start"
    /\ UNCHANGED <<sanitized_strings, max_solution_size, stack>>

Next ==
    \/ Main_build
    \/ Main_find_pangrams
    \/ Loop_complete
    \/ Loop_failed
    \/ Loop_potential
    \/ Return
    \/ Main_unique
    \/ Main_again

Spec == Init /\ [][Next]_vars

----------------------------------------------------------------------------
(* Vocabulary of the properties *)

NumberOfLetters == Len(letters_sorted_by_rarity)

(* The mask with the bit of every one of the 26 ranks set *)
FullAlphabetMask == 0..(ALPHABET - 1)

OrOfMasks(solution) ==
    UNION {solution.words[i].letters_present : i \in 1..Len(solution.words)}

MaskOf(s) == parse_string(s, letters_sorted_by_rarity).letters_present

Corpus == Range(sanitized_strings)

(* A set of words of the list whose masks OR to the full-alphabet mask *)
Covers(S) == UNION {MaskOf(s) : s \in S} = FullAlphabetMask

Irredundant(S) == \A s \in S : ~Covers(S \ {s})

Candidates == {S \in SUBSET Corpus : S # {} /\ Cardinality(S) <= max_solution_size}

(* The word a call was entered with: check_with puts the new word in front *)
ChosenWord(k) == Head(stack[k].current_pangram.selected_words)

----------------------------------------------------------------------------
(* C1. Coverage: the bitwise OR of the masks of the words of every Solution that
   find_pangrams has emitted, and of every Solution kept by unique(), is the
   full-alphabet mask. *)
C1_Coverage ==
    /\ \A i \in 1..Len(pangrams) : OrOfMasks(pangrams[i]) = FullAlphabetMask
    /\ \A i \in 1..Len(no_dupes) : OrOfMasks(no_dupes[i]) = FullAlphabetMask

(* A Solution of several words has been emitted *)
C1_Witness ==
    \E i \in 1..Len(pangrams) : Len(pangrams[i].words) >= 2

(* C2. Bound: every emitted Solution holds at most max_solution_size words, and no
   call of find_pangrams is ever entered with a Pangram that already holds
   max_solution_size words: the branch that reaches the bound without covering
   the alphabet is classified Failed, not extended. *)
C2_Bound ==
    /\ \A i \in 1..Len(pangrams) : Len(pangrams[i].words) <= max_solution_size
    /\ \A k \in 1..Len(stack) :
          Len(stack[k].current_pangram.selected_words) < max_solution_size
    /\ (InLoop /\ Len(Top.current_pangram.selected_words) + 1 >= max_solution_size)
          => Checked.state \in {"CompletePangram", "FailedPangram"}

(* A Solution of exactly max_solution_size words has been emitted and the loop is at
   a word that reaches the bound without completing the alphabet *)
C2_Witness ==
    /\ max_solution_size >= 2
    /\ \E i \in 1..Len(pangrams) : Len(pangrams[i].words) = max_solution_size
    /\ InLoop
    /\ Checked.state = "FailedPangram"

(* C3. No duplicates: in the final result no two Solutions are equal as sets of
   words. *)
C3_NoDuplicates ==
    pc = "done" =>
        \A i, j \in 1..Len(no_dupes) :
            Range(no_dupes[i].words) = Range(no_dupes[j].words) => i = j

(* The search emitted the same words twice, reached by picking them in different
   orders, and unique() removed the repetition *)
C3_Witness ==
    /\ pc = "done"
    /\ Len(no_dupes) < Len(pangrams)
    /\ Len(no_dupes) >= 2

(* C4. Exhaustiveness: every set of at most max_solution_size words of the list
   whose masks OR to the full-alphabet mask is among the Solutions of the final
   result. *)
C4_Exhaustive ==
    pc = "done" =>
        \A S \in Candidates : Covers(S) => S \in SolutionSets(no_dupes)

(* C5. Multiplicity conservation: the reported count is the sum, over the distinct
   Solutions taken as sets of masks, of the product of the numbers of words of the
   list that share each mask; and the list [AB, BA, CDEF] with max_solution_size = 2
   runs to the end and reports 2 for its one mask-level Solution. *)
MaskSolutions ==
    {{no_dupes[i].words[j].letters_present : j \in 1..Len(no_dupes[i].words)} :
        i \in 1..Len(no_dupes)}

Multiplicity(m) == Cardinality({s \in Corpus : MaskOf(s) = m})

RECURSIVE ProductOfMultiplicities(_)
ProductOfMultiplicities(M) ==
    IF M = {} THEN 1
    ELSE LET m == CHOOSE x \in M : TRUE
         IN  Multiplicity(m) * ProductOfMultiplicities(M \ {m})

RECURSIVE SumOfProducts(_)
SumOfProducts(MS) ==
    IF MS = {} THEN 0
    ELSE LET M == CHOOSE x \in MS : TRUE
         IN  ProductOfMultiplicities(M) + SumOfProducts(MS \ {M})

C5_CountLaw ==
    pc = "done" => reported = SumOfProducts(MaskSolutions)

C5_Multiplicity ==
    /\ C5_CountLaw
    /\ (sanitized_strings = <<AB, BA, CDEF>> /\ max_solution_size = 2) =>
          /\ pc # "panic"
          /\ pc = "done" => (Cardinality(MaskSolutions) = 1 /\ reported = 2)

(* C6. End to end on the letters A..F: the list [AB, ABCDEF, CD, EF] with
   max_solution_size = 3 runs to the end and yields exactly the Solutions [ABCDEF]
   and [AB, CD, EF], reported as 2. *)
C6_EndToEnd ==
    (sanitized_strings = <<AB, ABCDEF, CD, EF>> /\ max_solution_size = 3) =>
        /\ pc # "panic"
        /\ pc = "done" =>
              /\ SolutionSets(no_dupes) = {{ABCDEF}, {AB, CD, EF}}
              /\ reported = 2

(* C7. Empty word list: the search ends without an abort, with no Solution and a
   reported count of 0. *)
C7_EmptyCorpus ==
    sanitized_strings = <<>> =>
        /\ pc # "panic"
        /\ pc = "done" => (no_dupes = <<>> /\ reported = 0)

(* C8. Rank-order independence: a second execution on the same word list, whose
   letters tie-break in another order, ends with the same set of Solutions and the
   same reported count as the first. *)
C8_RankOrderIndependence ==
    (pc = "done" /\ run = 2) =>
        /\ SolutionSets(no_dupes) = first_solutions
        /\ reported = first_reported

(* C9. Termination and depth: for a word list covering the 26 letters, a started
   search returns: it never aborts, it can always take a step until it has
   returned, and every step that does not return leaves strictly less work; and at
   every moment the recursion is at most max_solution_size
   deep, the call at depth k holds k-1 words (fewer than max_solution_size), the
   word it was entered with lies in the bucket of its caller, which is the bucket
   of the caller's lowest uncovered rank, and its covered mask is strictly larger
   than its caller's. *)
C9_DepthInvariant ==
    /\ Len(stack) <= max_solution_size
    /\ \A k \in 1..Len(stack) :
          LET p == stack[k].current_pangram
          IN  /\ Len(p.selected_words) = k - 1
              /\ Len(p.selected_words) < max_solution_size
              /\ stack[k].bucket - 1 = leading_ones(p.selected_letters)
              /\ p.selected_letters = OrOfMasks([words |-> p.selected_words])
    /\ \A k \in 2..Len(stack) :
          LET caller == stack[k - 1]
              callee == stack[k].current_pangram
          IN  /\ ChosenWord(k) \in Range(search_structure[caller.bucket].words)
              /\ (caller.bucket - 1) \in ChosenWord(k).letters_present
              /\ caller.current_pangram.selected_letters \subseteq callee.selected_letters
              /\ caller.current_pangram.selected_letters # callee.selected_letters

(* The work left: the calls outermost first, each counted by the words its loop
   has still to visit; entering a call costs the caller one word and gives the
   callee at most a whole bucket, which weighs less one level down. *)
Weight == Len(sanitized_strings) + 2

RECURSIVE Power(_, _)
Power(b, n) == IF n = 0 THEN 1 ELSE b * Power(b, n - 1)

WordsLeft(k) == Len(search_structure[stack[k].bucket].words) + 1 - stack[k].next

RECURSIVE WorkLeftFrom(_)
WorkLeftFrom(k) ==
    IF k > Len(stack) THEN 0
    ELSE (WordsLeft(k) + 1) * Power(Weight, max_solution_size - k) + WorkLeftFrom(k + 1)

WorkLeft == WorkLeftFrom(1)

C9_Progress ==
    (pc = "search" /\ NumberOfLetters = ALPHABET) =>
        \/ pc' = "returned"
        \/ pc' = "search" /\ WorkLeft' < WorkLeft

(* A search over the whole alphabet has not aborted, and while it is running one
   of Loop_complete, Loop_failed, Loop_potential and Return can act: a call is
   active, and its loop is at its end or at a word that check_with classifies *)
C9_NeverStuck ==
    /\ NumberOfLetters = ALPHABET => pc # "panic"
    /\ (NumberOfLetters = ALPHABET /\ pc = "search") =>
          /\ stack # <<>>
          /\ \/ Top.next > Len(Bucket)
             \/ Checked.state \in {"CompletePangram", "FailedPangram", "PotentialPangram"}

C9_Termination ==
    /\ []C9_DepthInvariant
    /\ []C9_NeverStuck
    /\ [][C9_Progress]_vars

(* A search over the whole alphabet is max_solution_size calls deep *)
C9_Witness ==
    /\ NumberOfLetters = ALPHABET
    /\ max_solution_size >= 3
    /\ Len(stack) = max_solution_size

(* C10. Every irredundant cover is found: for a word list over the whole alphabet,
   every set of at most max_solution_size words whose masks OR to the
   full-alphabet mask, and from which no word can be removed without losing a
   letter, is among the Solutions of the final result. *)
C10_IrredundantCovers ==
    (pc = "done" /\ NumberOfLetters = ALPHABET) =>
        \A S \in Candidates :
            (Covers(S) /\ Irredundant(S)) => S \in SolutionSets(no_dupes)

(* The search over a whole-alphabet list has ended and its result holds an
   irredundant cover of three or more words *)
C10_Witness ==
    /\ pc = "done"
    /\ NumberOfLetters = ALPHABET
    /\ \E S \in Candidates :
          /\ Cardinality(S) >= 3
          /\ Covers(S)
          /\ Irredundant(S)
          /\ S \in SolutionSets(no_dupes)

====
